---- MODULE Spec2Model ----
(***************************************************************************)
(* Model of record_redis.cache.RedisCache: one cache instance talking to   *)
(* one Redis server.                                                       *)
(*                                                                         *)
(* Python strings are sequences of one-character strings, so that len(),   *)
(* indexing, iteration, '%s:%s' formatting and ':'.join behave as in       *)
(* Python.  A record (dict of str -> str) is the sequence of its           *)
(* <<key, value>> items in insertion order.                                *)
(*                                                                         *)
(* The client returned by nr() is a redis-py client that decodes replies   *)
(* to str, and `undefined` is false in a condition, as the comparisons     *)
(* with '0' and the `if index:` tests of fetch need.                       *)
(*                                                                         *)
(* Spec runs the calls of one cache; SpecInit runs the constructor on any  *)
(* conf; SpecAtomic runs one fetch by index GET by GET beside the calls of *)
(* other clients; SpecBatch runs fetch(list, index) round trip by round    *)
(* trip beside them; SpecForeign runs a cache beside a client that writes  *)
(* any str; SpecConn builds several caches on one registry of connections. *)
(***************************************************************************)
EXTENDS Integers, Sequences, FiniteSets, TLC

VARIABLES
    ttl,        \* self._ttl
    indexes,    \* self._indexes : index name -> list of fields
    db,         \* the Redis keyspace : key -> [val, ex]; ex = 0 is "no expiry"
    lastOp,     \* the call made by the last step, with its arguments
    result,     \* what that call returned or raised
    calls,      \* the round trips that call made to Redis, in order
    confArg,    \* the conf dict handed to the constructor
    error,      \* what the constructor raised
    script,     \* the run of _GET_SECONDARY on the server: its position, its
                \* key, the reply of its first GET, the keyspace each GET read
    registry,   \* the connections nr() keeps: entries of key and connection
    insts       \* the caches under construction and built: their conf, their
                \* position in the constructor and their self._redis

connVars == <<registry, insts>>
vars == <<ttl, indexes, db, lastOp, result, calls, confArg, error, script, registry, insts>>

----------------------------------------------------------------------------
(* Bounds and input sets *)

MaxTTL == 2      \* largest time to live, in clock ticks
MaxBatch == 2    \* longest list handed to add_missing
MaxList == 3     \* longest list of ids handed to fetch
MaxEntries == 2  \* longest list of index definitions handed to the constructor
MaxCaches == 3   \* caches constructed side by side

A == <<"a">>
B == <<"b">>
AA == <<"a", "a">>       \* an id of more than one character
Ids == {A, AA}           \* the ids that are stored or marked missing

IndexN == <<"n">>        \* the configured index names
IndexM == <<"m">>
IndexX == <<"x">>        \* an index name that is never configured
FieldF == <<"f">>
FieldG == <<"g">>

R1 == << <<FieldF, A>> >>
\* the value of g holds a quote and the character of code 0x1f600, which
\* jsonb.encode writes as a short escape and as a surrogate pair
R2 == << <<FieldF, B>>, <<FieldG, <<"\"", "\\u1f600">> >> >>
Records == {R1, R2}

\* An id as a caller passes it: a str (tup = FALSE, one part) or a tuple of
\* strs (tup = TRUE).  An argument is one id (list = FALSE) or a list of ids.
Str(s) == [tup |-> FALSE, parts |-> <<s>>]
Tup(ps) == [tup |-> TRUE, parts |-> ps]
One(e) == [list |-> FALSE, items |-> <<e>>]
List(es) == [list |-> TRUE, items |-> es]

StrIds == {Str(i) : i \in Ids}
Tuples == {Tup(<<A>>), Tup(<<A, B>>)}

\* the `undefined` sentinel, for the index argument and for the ttl argument
Undefined == <<"undefined">>
UndefinedTTL == -1

\* None as a raw reply of Redis
Nil == <<"nil">>

----------------------------------------------------------------------------
(* Python helpers *)

\* sequences over S of length lo..hi
SeqsOf(S, lo, hi) == UNION {[1..n -> S] : n \in lo..hi}

\* sequences over S without repetition, of length lo..hi
DistinctSeqs(S, lo, hi) ==
    {s \in SeqsOf(S, lo, hi) : \A i, j \in 1..Len(s) : i # j => s[i] # s[j]}

\* sep.join(parts)
RECURSIVE Join(_, _)
Join(sep, parts) ==
    IF Len(parts) = 0 THEN <<>>
    ELSE IF Len(parts) = 1 THEN parts[1]
    ELSE parts[1] \o sep \o Join(sep, Tail(parts))

\* '%s:%s' % (a, b)
Fmt(a, b) == a \o <<":">> \o b

\* truth value of a raw reply: None and '' are false
Truthy(v) == v # Nil /\ v # <<>>

----------------------------------------------------------------------------
(* Characters.  A character is a string: itself for the codes 32 to 126    *)
(* but 96 and for tab, line feed, form feed and carriage return, the only  *)
(* ones a TLA+ string can hold; "\\b" for the backspace; and for every     *)
(* other code "\\u" followed by the code in lower-case hexadecimal, on at  *)
(* least four digits: "\\u0001", "\\u0060", "\\u007f", "\\u00e9",          *)
(* "\\u1f600".                                                             *)

\* the hexadecimal digits as they are written
HexDigits == <<"0", "1", "2", "3", "4", "5", "6", "7", "8", "9", "a", "b", "c", "d", "e", "f">>

\* the value of a hexadecimal digit, of either case
HexVal ==
    ("0" :> 0) @@ ("1" :> 1) @@ ("2" :> 2) @@ ("3" :> 3) @@ ("4" :> 4) @@ ("5" :> 5)
    @@ ("6" :> 6) @@ ("7" :> 7) @@ ("8" :> 8) @@ ("9" :> 9)
    @@ ("a" :> 10) @@ ("b" :> 11) @@ ("c" :> 12) @@ ("d" :> 13) @@ ("e" :> 14) @@ ("f" :> 15)
    @@ ("A" :> 10) @@ ("B" :> 11) @@ ("C" :> 12) @@ ("D" :> 13) @@ ("E" :> 14) @@ ("F" :> 15)

\* the characters of code 32 to 126
Ascii ==
    <<
      " ", "!", "\"", "#", "$", "%", "&", "'", "(", ")", "*", "+", ",",
      "-", ".", "/", "0", "1", "2", "3", "4", "5", "6", "7", "8", "9",
      ":", ";", "<", "=", ">", "?", "@", "A", "B", "C", "D", "E", "F",
      "G", "H", "I", "J", "K", "L", "M", "N", "O", "P", "Q", "R", "S",
      "T", "U", "V", "W", "X", "Y", "Z", "[", "\\", "]", "^", "_", "\\u0060",
      "a", "b", "c", "d", "e", "f", "g", "h", "i", "j", "k", "l", "m",
      "n", "o", "p", "q", "r", "s", "t", "u", "v", "w", "x", "y", "z",
      "{", "|", "}", "~"
    >>

\* chr(n), for every code up to 0x10ffff
CharOf(n) ==
    LET RECURSIVE HexText(_, _)
        \* m in hexadecimal, on w digits or more
        HexText(m, w) ==
            IF m = 0 /\ w <= 0 THEN ""
            ELSE HexText(m \div 16, w - 1) \o HexDigits[(m % 16) + 1]
    IN  IF n - 31 \in 1..Len(Ascii) THEN Ascii[n - 31]
        ELSE IF n = 8 THEN "\\b"
        ELSE IF n = 9 THEN "\t"
        ELSE IF n = 10 THEN "\n"
        ELSE IF n = 12 THEN "\f"
        ELSE IF n = 13 THEN "\r"
        ELSE "\\u" \o HexText(n, 4)

\* ord(c)
CodeOf(c) ==
    LET RECURSIVE HexNum(_, _)
        \* the number whose hexadecimal digits are those of c from the k-th on
        HexNum(k, acc) ==
            IF k > Len(c) THEN acc
            ELSE HexNum(k + 1, acc * 16 + HexVal[SubSeq(c, k, k)])
    IN  IF c = "\\b" THEN 8
        ELSE IF c = "\t" THEN 9
        ELSE IF c = "\n" THEN 10
        ELSE IF c = "\f" THEN 12
        ELSE IF c = "\r" THEN 13
        ELSE IF Len(c) > 1 THEN HexNum(3, 0)
        ELSE 31 + CHOOSE k \in 1..Len(Ascii) : Ascii[k] = c

----------------------------------------------------------------------------
(* jsonb.encode / jsonb.decode, a package that is not part of this source: *)
(* they are the encoder and the decoder of JSON of the Python library,     *)
(* json.dumps and json.loads with their default arguments.                 *)
(*                                                                         *)
(* A decoded str is the sequence of its characters, as every str here; a   *)
(* dict is the sequence of its <<key, value>> items in insertion order,    *)
(* a value being a str or, for any other type, [kind, rec]; a list is the  *)
(* sequence of its elements, each as [kind, rec].  An int is the text of   *)
(* its digits and a float the text of its literal.                         *)

\* the characters json.dumps writes as a short escape, with its letter
Escaped ==
    ("\"" :> "\"") @@ ("\\" :> "\\") @@ ("\n" :> "n") @@ ("\r" :> "r")
    @@ ("\t" :> "t") @@ ("\f" :> "f") @@ ("\\b" :> "b")

\* what json.dumps writes for the character c: its short escape, itself
\* when it is of ASCII and printable, else \uXXXX, twice (a surrogate
\* pair) from 0x10000 up
EscapeOf(c) ==
    LET U(n) == <<"\\", "u", HexDigits[((n \div 4096) % 16) + 1],
                  HexDigits[((n \div 256) % 16) + 1], HexDigits[((n \div 16) % 16) + 1],
                  HexDigits[(n % 16) + 1]>>
        Written(n) ==
            IF n \in 32..126 THEN <<c>>
            ELSE IF n < 65536 THEN U(n)
            ELSE U(55296 + ((n - 65536) \div 1024)) \o U(56320 + ((n - 65536) % 1024))
    IN  IF c \in DOMAIN Escaped THEN <<"\\", Escaped[c]>> ELSE Written(CodeOf(c))

Quote(s) == <<"\"">> \o Join(<<>>, [k \in 1..Len(s) |-> EscapeOf(s[k])]) \o <<"\"">>

RECURSIVE EncodeItems(_)
EncodeItems(rec) ==
    IF Len(rec) = 0 THEN <<>>
    ELSE Quote(rec[1][1]) \o <<":", " ">> \o Quote(rec[1][2])
         \o (IF Len(rec) = 1 THEN <<>> ELSE <<",", " ">> \o EncodeItems(Tail(rec)))

\* jsonb.encode(record)
Encode(rec) == <<"{">> \o EncodeItems(rec) \o <<"}">>

At(s, i) == IF i \in 1..Len(s) THEN s[i] ELSE ""

\* what jsonb.decode gives: kind is the type of the value ("dict", "list",
\* "str", "int", "float", "True", "False", "None"), rec its items or its text
Decoded(kind, rec) == [ok |-> TRUE, kind |-> kind, rec |-> rec]
BadJSON == [ok |-> FALSE, kind |-> "", rec |-> <<>>]

\* a value that is no str, inside a dict; any element of a list
Value(kind, rec) == [kind |-> kind, rec |-> rec]

\* a value read from the text, and the position after it
Parsed(kind, rec, next) == [ok |-> TRUE, kind |-> kind, rec |-> rec, next |-> next]
NoParse == [ok |-> FALSE, kind |-> "", rec |-> <<>>, next |-> 0]

Digits == {"0", "1", "2", "3", "4", "5", "6", "7", "8", "9"}
WhiteSpace == {" ", "\t", "\n", "\r"}
\* the control characters, which a str of JSON holds only as escapes
ControlChars == {CharOf(n) : n \in 0..31}

RECURSIVE SkipWS(_, _)
SkipWS(s, i) == IF i <= Len(s) /\ s[i] \in WhiteSpace THEN SkipWS(s, i + 1) ELSE i

RECURSIVE SkipDigits(_, _)
SkipDigits(s, i) == IF i <= Len(s) /\ s[i] \in Digits THEN SkipDigits(s, i + 1) ELSE i

StartsWith(s, i, w) == i + Len(w) - 1 <= Len(s) /\ SubSeq(s, i, i + Len(w) - 1) = w

\* -?(0|[1-9][0-9]*)(\.[0-9]+)?([eE][-+]?[0-9]+)? : an int when it has
\* neither fraction nor exponent
ParseNumber(s, i) ==
    LET \* the end of the integer part that starts at s[d]: d when no digit
        IntEnd(d) == IF At(s, d) = "0" THEN d + 1 ELSE SkipDigits(s, d)
        \* the end of the digits from s[x] on, or back when there is none
        DigitsEnd(x, back) == IF SkipDigits(s, x) > x THEN SkipDigits(s, x) ELSE back
        \* the end of the fraction, if one starts at s[e]
        FracEnd(e) == IF At(s, e) = "." THEN DigitsEnd(e + 1, e) ELSE e
        \* the end of the exponent, if one starts at s[f]
        ExpEnd(f) ==
            IF At(s, f) \notin {"e", "E"} THEN f
            ELSE IF At(s, f + 1) \in {"+", "-"} THEN DigitsEnd(f + 2, f)
            ELSE DigitsEnd(f + 1, f)
        \* the number of this text, whose integer part ends before s[e]
        NumberOf(text, e, g) ==
            IF g = e THEN Parsed("int", IF text = <<"-", "0">> THEN <<"0">> ELSE text, g)
            ELSE Parsed("float", text, g)
        NumberTo(e, g) == NumberOf(SubSeq(s, i, g - 1), e, g)
        NumberFrom(d, e) == IF e = d THEN NoParse ELSE NumberTo(e, ExpEnd(FracEnd(e)))
        NumberAt(d) == NumberFrom(d, IntEnd(d))
    IN  NumberAt(IF At(s, i) = "-" THEN i + 1 ELSE i)

\* four hexadecimal digits from s[i] on, and their value
IsHex4(s, i) == \A k \in 0..3 : At(s, i + k) \in DOMAIN HexVal
Hex4(s, i) ==
    ((HexVal[s[i]] * 16 + HexVal[s[i + 1]]) * 16 + HexVal[s[i + 2]]) * 16 + HexVal[s[i + 3]]

\* the letter after a backslash, and the character it stands for
Unescaped ==
    ("\"" :> "\"") @@ ("\\" :> "\\") @@ ("/" :> "/") @@ ("n" :> "\n")
    @@ ("r" :> "\r") @@ ("t" :> "\t") @@ ("f" :> "\f") @@ ("b" :> "\\b")

\* a str from the character after its opening quote on
RECURSIVE StringTail(_, _, _)
StringTail(s, j, acc) ==
    LET \* the character of the surrogate pair hi, lo
        PairChar(hi, lo) == CharOf(65536 + (hi - 55296) * 1024 + (lo - 56320))
        \* a second \uXXXX at s[k], the low half of a pair
        LowAt(k) == At(s, k) = "\\" /\ At(s, k + 1) = "u" /\ IsHex4(s, k + 2)
        \* \uXXXX of value n, read up to s[k - 1]
        Unicode(k, n, low) ==
            IF n \in 55296..56319 /\ low
                THEN IF Hex4(s, k + 2) \in 56320..57343
                         THEN StringTail(s, k + 6, Append(acc, PairChar(n, Hex4(s, k + 2))))
                     ELSE StringTail(s, k, Append(acc, CharOf(n)))
            ELSE StringTail(s, k, Append(acc, CharOf(n)))
        \* the escape whose letter c is s[k]
        Escape(k, c) ==
            IF c \in DOMAIN Unescaped THEN StringTail(s, k + 1, Append(acc, Unescaped[c]))
            ELSE IF c = "u" /\ IsHex4(s, k + 1)
                THEN Unicode(k + 5, Hex4(s, k + 1), LowAt(k + 5))
            ELSE NoParse
    IN  IF j > Len(s) THEN NoParse
        ELSE IF s[j] = "\"" THEN Parsed("str", acc, j + 1)
        ELSE IF s[j] = "\\" THEN Escape(j + 1, At(s, j + 1))
        ELSE IF s[j] \in ControlChars THEN NoParse
        ELSE StringTail(s, j + 1, Append(acc, s[j]))

\* a later item of the same key replaces the value of the earlier one
Put(acc, k, v) ==
    IF \E n \in 1..Len(acc) : acc[n][1] = k
        THEN [acc EXCEPT ![CHOOSE n \in 1..Len(acc) : acc[n][1] = k] = <<k, v>>]
    ELSE Append(acc, <<k, v>>)

RECURSIVE ParseValue(_, _)
RECURSIVE ParseElements(_, _, _)
RECURSIVE ParseMembers(_, _, _)

\* the elements of a list whose next element starts at s[i]
ParseElements(s, i, acc) ==
    LET \* after an element that ends before s[k]
        AfterElement(k, all) ==
            IF At(s, k) = "," THEN ParseElements(s, SkipWS(s, k + 1), all)
            ELSE IF At(s, k) = "]" THEN Parsed("list", all, k + 1)
            ELSE NoParse
        \* the element p, read after those of acc
        Element(p) ==
            IF ~p.ok THEN NoParse
            ELSE AfterElement(SkipWS(s, p.next), Append(acc, Value(p.kind, p.rec)))
    IN  Element(ParseValue(s, i))

\* the items of a dict whose next key starts at s[i]
ParseMembers(s, i, acc) ==
    LET \* after an item that ends before s[k]
        AfterMember(k, all) ==
            IF At(s, k) = "," THEN ParseMembers(s, SkipWS(s, k + 1), all)
            ELSE IF At(s, k) = "}" THEN Parsed("dict", all, k + 1)
            ELSE NoParse
        \* the value p of key
        MemberValue(key, p) ==
            IF ~p.ok THEN NoParse
            ELSE AfterMember(SkipWS(s, p.next),
                             Put(acc, key, IF p.kind = "str" THEN p.rec
                                           ELSE Value(p.kind, p.rec)))
        \* the colon at s[c], after key
        MemberColon(key, c) ==
            IF At(s, c) # ":" THEN NoParse
            ELSE MemberValue(key, ParseValue(s, SkipWS(s, c + 1)))
        \* the item whose key is the str key
        Member(key) ==
            IF ~key.ok THEN NoParse ELSE MemberColon(key.rec, SkipWS(s, key.next))
    IN  IF At(s, i) # "\"" THEN NoParse ELSE Member(StringTail(s, i + 1, <<>>))

\* the value that starts at s[i]
ParseValue(s, i) ==
    LET \* a dict or a list whose first item starts at s[j], or which ends there
        Container(j, c) ==
            IF c = "{"
                THEN IF At(s, j) = "}" THEN Parsed("dict", <<>>, j + 1)
                     ELSE ParseMembers(s, j, <<>>)
            ELSE IF At(s, j) = "]" THEN Parsed("list", <<>>, j + 1)
            ELSE ParseElements(s, j, <<>>)
        \* the value that starts with the character c
        ValueAt(c) ==
            IF c \in {"{", "["} THEN Container(SkipWS(s, i + 1), c)
            ELSE IF c = "\"" THEN StringTail(s, i + 1, <<>>)
            ELSE IF StartsWith(s, i, <<"t", "r", "u", "e">>) THEN Parsed("True", <<>>, i + 4)
            ELSE IF StartsWith(s, i, <<"f", "a", "l", "s", "e">>)
                THEN Parsed("False", <<>>, i + 5)
            ELSE IF StartsWith(s, i, <<"n", "u", "l", "l">>) THEN Parsed("None", <<>>, i + 4)
            ELSE IF StartsWith(s, i, <<"N", "a", "N">>)
                THEN Parsed("float", SubSeq(s, i, i + 2), i + 3)
            ELSE IF StartsWith(s, i, <<"I", "n", "f", "i", "n", "i", "t", "y">>)
                THEN Parsed("float", SubSeq(s, i, i + 7), i + 8)
            ELSE IF StartsWith(s, i, <<"-", "I", "n", "f", "i", "n", "i", "t", "y">>)
                THEN Parsed("float", SubSeq(s, i, i + 8), i + 9)
            ELSE ParseNumber(s, i)
    IN  ValueAt(At(s, i))

\* jsonb.decode(s): one value with white space around it and nothing else;
\* ok = FALSE stands for the decoder raising
Decode(s) ==
    LET \* the value p, when only white space follows it
        Whole(p) ==
            IF p.ok /\ SkipWS(s, p.next) = Len(s) + 1 THEN Decoded(p.kind, p.rec)
            ELSE BadJSON
    IN  Whole(ParseValue(s, SkipWS(s, 1)))

----------------------------------------------------------------------------
(* The Redis server, as the client calls of the cache see it *)

NoExpiry == 0
Marker == <<"0">>       \* the value add_missing writes
OK == <<"OK">>

EmptyDB == [k \in {} |-> [val |-> <<>>, ex |-> NoExpiry]]

\* `ttl or None`: 0 is passed on as None, which Redis takes as "no expiry"
ExOf(t) == IF t = 0 THEN NoExpiry ELSE t

RGet(d, k) == IF k \in DOMAIN d THEN d[k].val ELSE Nil

RSet(d, k, v, ex) ==
    [x \in DOMAIN d \cup {k} |-> IF x = k THEN [val |-> v, ex |-> ex] ELSE d[x]]

\* one command; keys are ids as the caller passed them
Cmd(name, keys, val, ex) == [cmd |-> name, keys |-> keys, val |-> val, ex |-> ex]
SetCmd(k, v, ex) == Cmd("SET", <<Str(k)>>, v, ex)
GetCmd(k) == Cmd("GET", <<Str(k)>>, <<>>, NoExpiry)
MGetCmd(ks) == Cmd("MGET", ks, <<>>, NoExpiry)
EvalCmd(k) == Cmd("EVALSHA", <<Str(k)>>, <<>>, NoExpiry)

\* one round trip: a single command, or a pipeline of commands
Trip(pipe, cmds) == [pipe |-> pipe, cmds |-> cmds]

Reply(d, vals, err) == [db |-> d, vals |-> vals, err |-> err]

\* _GET_SECONDARY: GET KEYS[1], then GET of what it holds.  A missing key
\* makes the first GET return false, and redis.call refuses a false argument.
GetSecondaryScript(d, k) ==
    LET primary == RGet(d, k)
    IN  IF primary = Nil THEN Reply(d, <<>>, "ResponseError")
        ELSE Reply(d, <<RGet(d, primary)>>, "")

\* the client refuses a key that is not a str (redis.exceptions.DataError)
RedisExec(d, c) ==
    IF \E i \in 1..Len(c.keys) : c.keys[i].tup THEN Reply(d, <<>>, "DataError")
    ELSE LET k == [i \in 1..Len(c.keys) |-> c.keys[i].parts[1]]
         IN  CASE c.cmd = "SET" -> Reply(RSet(d, k[1], c.val, c.ex), <<OK>>, "")
               [] c.cmd = "GET" -> Reply(d, <<RGet(d, k[1])>>, "")
               [] c.cmd = "MGET" -> Reply(d, [i \in 1..Len(k) |-> RGet(d, k[i])], "")
               [] c.cmd = "EVALSHA" -> GetSecondaryScript(d, k[1])

\* Pipeline.execute(): the queued commands in order, one reply for each
RECURSIVE PipeExec(_, _)
PipeExec(d, cmds) ==
    IF Len(cmds) = 0 THEN Reply(d, <<>>, "")
    ELSE LET r == RedisExec(d, cmds[1])
             rest == PipeExec(r.db, Tail(cmds))
         IN  Reply(rest.db, <<r.vals[1]>> \o rest.vals, "")

\* one clock tick: every timed key is one tick closer to expiry
Expire(d) ==
    LET keep == {k \in DOMAIN d : d[k].ex # 1}
    IN  [k \in keep |-> IF d[k].ex = NoExpiry THEN d[k]
                        ELSE [val |-> d[k].val, ex |-> d[k].ex - 1]]

\* a run of the script: pc is "idle" before any run, "read1" between its
\* two GETs and "done" after it
Run(pc, k, primary, seen1, seen2) ==
    [pc |-> pc, key |-> k, primary |-> primary, seen1 |-> seen1, seen2 |-> seen2]
NoScript == Run("idle", <<>>, Nil, EmptyDB, EmptyDB)

\* the two GETs are sent by the client one after the other
ScriptHoldsNothing(sc) == FALSE

\* the server runs a script to its end before it serves another command or
\* expires a key
ScriptHolds(sc) == sc.pc = "read1"

----------------------------------------------------------------------------
(* What a call returns or raises *)

Item(kind, rec) == [kind |-> kind, rec |-> rec]
Res(kind, rec, items, err) == [kind |-> kind, rec |-> rec, items |-> items, err |-> err]

RNone == Res("None", <<>>, <<>>, "")
RFalse == Res("False", <<>>, <<>>, "")
RTrue == Res("True", <<>>, <<>>, "")
RDict(rec) == Res("dict", rec, <<>>, "")
RList(items) == Res("list", <<>>, items, "")
Raise(err) == Res("raise", <<>>, <<>>, err)

\* a decoded value as a call returns it
Returned(j) ==
    IF j.kind = "list" THEN RList(j.rec) ELSE Res(j.kind, j.rec, <<>>, "")

\* the call has not returned yet
RPending == Res("pending", <<>>, <<>>, "")

\* the outcome of a call: the keyspace after it, its result, its round trips
Out(d, res, trips) == [db |-> d, result |-> res, calls |-> trips]

----------------------------------------------------------------------------
(* RedisCache.__init__ *)

\* conf['ttl']: missing (KeyError), None (TypeError) or an int
ConfTTLs ==
    {[kind |-> "missing", val |-> 0], [kind |-> "none", val |-> 0]}
    \cup {[kind |-> "int", val |-> n] : n \in {0, MaxTTL}}

\* conf['indexes']: missing, or a list of {name, fields}
IndexDef(name, fields) == [name |-> name, fields |-> fields]
ConfIndexes ==
    {[has |-> FALSE, list |-> <<>>],
     [has |-> TRUE, list |-> <<>>],
     [has |-> TRUE, list |-> <<IndexDef(IndexN, <<FieldF>>)>>],
     [has |-> TRUE, list |-> <<IndexDef(IndexN, <<FieldF>>),
                               IndexDef(IndexM, <<FieldF, FieldG>>)>>]}

Confs == [ttl : ConfTTLs, indexes : ConfIndexes]

\* self._ttl
InitTTL(conf) == IF conf.ttl.kind = "int" THEN conf.ttl.val ELSE 0

\* self._indexes: name -> fields, a later definition replacing an earlier one
InitIndexes(conf) ==
    LET l == IF conf.indexes.has THEN conf.indexes.list ELSE <<>>
        names == {l[i].name : i \in 1..Len(l)}
        last(n) == CHOOSE i \in 1..Len(l) :
                       l[i].name = n /\ \A j \in 1..Len(l) : l[j].name = n => j <= i
    IN  [n \in names |-> l[last(n)].fields]

\* conf['indexes'] as any caller may pass it: missing, not a list, or a list
\* of entries; an entry is not a dict, or a dict with or without 'name' and
\* with 'fields' missing, a str, a list of str or an int.  Names and str
\* fields are non-empty.
Missing == [has |-> FALSE, val |-> <<>>]
Given(v) == [has |-> TRUE, val |-> v]
Fields(kind, val) == [kind |-> kind, val |-> val]
RawNames == {Missing, Given(IndexN), Given(IndexM)}
RawFields ==
    {Fields("missing", <<>>), Fields("str", <<FieldF>>), Fields("int", <<>>),
     Fields("list", <<>>), Fields("list", <<FieldF>>), Fields("list", <<FieldF, FieldG>>)}
RawEntry(isDict, name, fields) == [isDict |-> isDict, name |-> name, fields |-> fields]
RawEntries ==
    {RawEntry(FALSE, Missing, Fields("missing", <<>>))}
    \cup {RawEntry(TRUE, n, f) : n \in RawNames, f \in RawFields}
RawIndexes ==
    {[kind |-> k, list |-> <<>>] : k \in {"missing", "dict", "str"}}
    \cup {[kind |-> "list", list |-> l] : l \in SeqsOf(RawEntries, 0, MaxEntries)}
RawConfs == [ttl : ConfTTLs, indexes : RawIndexes]

\* the conf of an instance that is already built
NoConf == [ttl |-> [kind |-> "missing", val |-> 0],
           indexes |-> [kind |-> "missing", list |-> <<>>]]

\* ValueError(arg % at, ...), at counting from 0
ValueError(arg, at) == [type |-> "ValueError", arg |-> arg, at |-> at]
NoError == [type |-> "", arg |-> "", at |-> -1]

\* a str is left as it is
NormalFieldsKeepStr(f) ==
    IF f.kind = "list" THEN [ok |-> TRUE, fields |-> f]
    ELSE IF f.kind = "str" THEN [ok |-> TRUE, fields |-> f]
    ELSE [ok |-> FALSE, fields |-> f]

\* conf['indexes'][i]['fields']: a list is kept, a str becomes a list of
\* one, anything else is invalid
NormalFields(f) ==
    IF f.kind = "list" THEN [ok |-> TRUE, fields |-> f]
    ELSE IF f.kind = "str" THEN [ok |-> TRUE, fields |-> Fields("list", <<f.val[1]>>)]
    ELSE [ok |-> FALSE, fields |-> f]

\* evaluate(entry, ['fields', 'name']) raises when a key is missing
Evaluate(e) == e.fields.kind # "missing" /\ e.name.has

Built(err, idxs, l) == [error |-> err, indexes |-> idxs, list |-> l]

\* the loop over conf['indexes'] from entry i on: the first invalid entry
\* raises, a valid one is stored under its name over any earlier one
RECURSIVE IndexLoop(_, _, _)
IndexLoop(l, i, idxs) ==
    IF i > Len(l) THEN Built(NoError, idxs, l)
    ELSE IF ~l[i].isDict THEN Built(ValueError("conf.indexes[%d]", i - 1), idxs, l)
    ELSE IF ~Evaluate(l[i]) THEN Built(ValueError("conf.indexes[%d]", i - 1), idxs, l)
    ELSE LET n == NormalFields(l[i].fields)
             m == [l EXCEPT ![i] = RawEntry(TRUE, l[i].name, n.fields)]
         IN  IF ~n.ok THEN Built(ValueError("conf.indexes[%d].fields", i - 1), idxs, l)
             ELSE IndexLoop(m, i + 1, (l[i].name.val :> n.fields.val) @@ idxs)

\* self._indexes, the error raised and conf['indexes'] as the constructor
\* leaves it
ConstructIndexes(ix) ==
    IF ix.kind = "missing" THEN Built(NoError, <<>>, ix.list)
    ELSE IF ix.kind # "list" THEN Built(ValueError("conf.indexes", -1), <<>>, ix.list)
    ELSE IndexLoop(ix.list, 1, <<>>)

----------------------------------------------------------------------------
(* RedisCache.add_missing *)

\* lIDs: len() and indexing of a str see its characters, of a list its items
MissingIDs(arg) ==
    IF arg.list THEN [k \in 1..Len(arg.items) |-> arg.items[k].parts[1]]
    ELSE LET sId == arg.items[1].parts[1]
         IN  [k \in 1..Len(sId) |-> <<sId[k]>>]

\* the ttl argument is ignored
MissingTTLInstanceOnly(t, given) == t

\* the ttl the markers get
MissingTTL(t, given) == IF given = UndefinedTTL THEN t ELSE given

AddMissingCall(d, t, arg, given) ==
    LET lIDs == MissingIDs(arg)
        ex == ExOf(MissingTTL(t, given))
    IN  IF Len(lIDs) = 1
            THEN LET c == SetCmd(lIDs[1], Marker, ex)
                 IN  Out(RedisExec(d, c).db, RTrue, <<Trip(FALSE, <<c>>)>>)
        ELSE LET cmds == [k \in 1..Len(lIDs) |-> SetCmd(lIDs[k], Marker, ex)]
                 r == PipeExec(d, cmds)
             IN  Out(r.db, RList([k \in 1..Len(lIDs) |-> Item("True", <<>>)]),
                     <<Trip(TRUE, cmds)>>)

----------------------------------------------------------------------------
(* RedisCache.store *)

\* The pipeline gets the primary SET, then `for d in self._indexes` walks the
\* names of the dict and d['name'] on a str raises TypeError: with any index
\* configured the loop fails on its first turn and execute() is never reached.
StoreIndexed(d, idxs, t, sId, rec) ==
    LET queued == <<SetCmd(sId, Encode(rec), ExOf(t))>>
    IN  IF DOMAIN idxs = {}
            THEN Out(PipeExec(d, queued).db, RList(<<Item("True", <<>>)>>),
                     <<Trip(TRUE, queued)>>)
        ELSE Out(d, Raise("TypeError"), <<>>)

StorePrimary(d, t, sId, rec) ==
    LET c == SetCmd(sId, Encode(rec), ExOf(t))
    IN  Out(RedisExec(d, c).db, RNone, <<Trip(FALSE, <<c>>)>>)

StoreCall(d, idxs, t, sId, rec) ==
    IF DOMAIN idxs # {} THEN StoreIndexed(d, idxs, t, sId, rec)
    ELSE StorePrimary(d, t, sId, rec)

----------------------------------------------------------------------------
(* RedisCache.fetch *)

\* `if index:` : undefined and '' are false
IndexGiven(index) == index # Undefined /\ index # <<>>

\* the secondary key of a single id: '%s:%s' % (index, ':'.join(_id)) for a
\* tuple, '%s:%s' % (index, _id) for a str
SecondaryKey(index, m) ==
    Fmt(index, IF m.tup THEN Join(<<":">>, m.parts) ELSE m.parts[1])

\* str(m) of a tuple of strs with no quote in them
TupleStr(parts) ==
    <<"(">> \o Join(<<",", " ">>, [k \in 1..Len(parts) |-> <<"'">> \o parts[k] \o <<"'">>])
    \o (IF Len(parts) = 1 THEN <<",">> ELSE <<>>) \o <<")">>

\* the key of the list path: `isinstance(m, tuple) and ':'.join(m) or m`
\* gives the tuple itself when the joined str is empty, and '%s' prints it
ListSecondaryKey(index, m) ==
    IF m.tup /\ Join(<<":">>, m.parts) # <<>> THEN Fmt(index, Join(<<":">>, m.parts))
    ELSE IF m.tup THEN Fmt(index, TupleStr(m.parts))
    ELSE Fmt(index, m.parts[1])

\* what jsonb.decode gave is returned, or its exception goes on
Loaded(d, j, trips) ==
    IF j.ok THEN Out(d, Returned(j), trips) ELSE Out(d, Raise("DecodeError"), trips)

\* the same for one reply of the list path
LoadedItem(j) == IF j.ok THEN Item(j.kind, j.rec) ELSE Item("raise", <<>>)

\* the marker test is inverted
ClassifyInverted(d, sRecord, trips) ==
    IF Truthy(sRecord)
        THEN IF sRecord # Marker THEN Out(d, RFalse, trips)
             ELSE Loaded(d, Decode(sRecord), trips)
    ELSE Out(d, RNone, trips)

\* a raw reply of the single paths: None, False or the decoded record
Classify(d, sRecord, trips) ==
    IF Truthy(sRecord)
        THEN IF sRecord = Marker THEN Out(d, RFalse, trips)
             ELSE Loaded(d, Decode(sRecord), trips)
    ELSE Out(d, RNone, trips)

\* one raw reply of the list path: a false reply is left as it is
ClassifyItem(sRecord) ==
    IF Truthy(sRecord)
        THEN IF sRecord = Marker THEN Item("False", <<>>)
             ELSE LoadedItem(Decode(sRecord))
    ELSE IF sRecord = Nil THEN Item("None", <<>>)
    ELSE Item("str", sRecord)

ClassifyList(d, lRecords, trips) ==
    LET items == [k \in 1..Len(lRecords) |-> ClassifyItem(lRecords[k])]
    IN  IF \E k \in 1..Len(items) : items[k].kind = "raise"
            THEN Out(d, Raise("DecodeError"), trips)
        ELSE Out(d, RList(items), trips)

\* one script call through self._get_secondary
FetchSecondary(d, sKey) ==
    LET c == EvalCmd(sKey)
        r == RedisExec(d, c)
    IN  IF r.err # "" THEN Out(r.db, Raise(r.err), <<Trip(FALSE, <<c>>)>>)
        ELSE Classify(r.db, r.vals[1], <<Trip(FALSE, <<c>>)>>)

\* the key is read with GETDEL
FetchPrimaryGetDel(d, sId) ==
    LET c == GetCmd(sId)
        r == RedisExec(d, c)
        left == [k \in DOMAIN d \ {sId} |-> d[k]]
    IN  Classify(left, r.vals[1], <<Trip(FALSE, <<c>>)>>)

FetchPrimary(d, sId) ==
    LET c == GetCmd(sId)
        r == RedisExec(d, c)
    IN  Classify(r.db, r.vals[1], <<Trip(FALSE, <<c>>)>>)

\* The list path with an index: oPipe is the client itself, so every script
\* call is a round trip of its own, made at once.  This is the round trip
\* after those of trips: a failing call raises, and after the last one the
\* client has no execute() to call; before that the call goes on.
FetchListTrip(d, index, items, trips) ==
    IF Len(items) = 0 THEN Out(d, Raise("AttributeError"), trips)
    ELSE LET k == Len(trips) + 1
             c == EvalCmd(ListSecondaryKey(index, items[k]))
             r == RedisExec(d, c)
             sent == Append(trips, Trip(FALSE, <<c>>))
         IN  IF r.err # "" THEN Out(r.db, Raise(r.err), sent)
             ELSE IF k = Len(items) THEN Out(r.db, Raise("AttributeError"), sent)
             ELSE Out(r.db, RPending, sent)

\* the replies are classified in reverse order
FetchListPrimaryReversed(d, items) ==
    LET c == MGetCmd(items)
        r == RedisExec(d, c)
    IN  IF r.err # "" THEN Out(r.db, Raise(r.err), <<Trip(FALSE, <<c>>)>>)
        ELSE ClassifyList(r.db, [k \in 1..Len(r.vals) |-> r.vals[Len(r.vals) + 1 - k]],
                          <<Trip(FALSE, <<c>>)>>)

FetchListPrimary(d, items) ==
    LET c == MGetCmd(items)
        r == RedisExec(d, c)
    IN  IF r.err # "" THEN Out(r.db, Raise(r.err), <<Trip(FALSE, <<c>>)>>)
        ELSE ClassifyList(r.db, r.vals, <<Trip(FALSE, <<c>>)>>)

\* the index is looked up only when some index is configured
UnknownIndexWhenConfigured(idxs, index) ==
    DOMAIN idxs # {} /\ index # Undefined /\ index \notin DOMAIN idxs

\* `index is not undefined and index not in self._indexes`
UnknownIndex(idxs, index) == index # Undefined /\ index \notin DOMAIN idxs

FetchCall(d, idxs, arg, index) ==
    IF UnknownIndex(idxs, index)
        THEN Out(d, Raise("ValueError:index"), <<>>)
    ELSE IF ~arg.list /\ arg.items[1].tup
        THEN IF index = Undefined THEN Out(d, Raise("ValueError:_id"), <<>>)
             ELSE FetchSecondary(d, SecondaryKey(index, arg.items[1]))
    ELSE IF ~arg.list
        THEN IF IndexGiven(index)
                 THEN FetchSecondary(d, Fmt(index, arg.items[1].parts[1]))
             ELSE FetchPrimary(d, arg.items[1].parts[1])
    ELSE IF IndexGiven(index) THEN FetchListTrip(d, index, arg.items, <<>>)
    ELSE FetchListPrimary(d, arg.items)

----------------------------------------------------------------------------
(* The calls a behaviour makes *)

Op(op, arg, index, rec, t) == [op |-> op, arg |-> arg, index |-> index, rec |-> rec, t |-> t]
NoArg == List(<<>>)

\* add_missing: every argument without ttl, two of them with each ttl
MissingArgs ==
    {One(e) : e \in StrIds} \cup {List(l) : l \in SeqsOf(StrIds, 0, MaxBatch)}
MissingCalls ==
    (MissingArgs \X {UndefinedTTL})
    \cup ({One(Str(AA)), List(<<Str(A), Str(AA)>>)} \X (0..MaxTTL))

\* fetch: every argument without index, one argument of each shape with an
\* index that is configured (in some configurations) and one that never is
FetchStrs == StrIds \cup {Str(B)}
FetchArgs ==
    {One(e) : e \in FetchStrs \cup Tuples}
    \cup {List(l) : l \in DistinctSeqs(FetchStrs, 0, MaxList)}
    \cup {List(<<Tup(<<A>>)>>), List(<<Str(A), Tup(<<A, B>>)>>)}
ShapeArgs ==
    {One(Str(A)), One(Tup(<<A>>)), One(Tup(<<A, B>>)),
     List(<<>>), List(<<Str(A)>>), List(<<Str(A), Str(AA)>>),
     List(<<Tup(<<A>>)>>), List(<<Str(A), Tup(<<A, B>>)>>), List(<<Tup(<<>>)>>)}
FetchCalls ==
    (FetchArgs \X {Undefined}) \cup (ShapeArgs \X {IndexN, IndexX})

Init ==
    /\ \E conf \in Confs :
        /\ ttl = InitTTL(conf)
        /\ indexes = InitIndexes(conf)
    /\ db = EmptyDB
    /\ lastOp = Op("init", NoArg, Undefined, <<>>, UndefinedTTL)
    /\ result = RNone
    /\ calls = <<>>
    /\ confArg = NoConf
    /\ error = NoError
    /\ script = NoScript
    /\ registry = {}
    /\ insts = <<>>

\* a call is made when the call before it has returned
Store(sId, rec) ==
    LET o == StoreCall(db, indexes, ttl, sId, rec)
    IN  /\ result # RPending
        /\ db' = o.db
        /\ result' = o.result
        /\ calls' = o.calls
        /\ lastOp' = Op("store", One(Str(sId)), Undefined, rec, UndefinedTTL)
        /\ UNCHANGED <<ttl, indexes, confArg, error, script>>
        /\ UNCHANGED connVars

AddMissing(arg, given) ==
    LET o == AddMissingCall(db, ttl, arg, given)
    IN  /\ result # RPending
        /\ db' = o.db
        /\ result' = o.result
        /\ calls' = o.calls
        /\ lastOp' = Op("add_missing", arg, Undefined, <<>>, given)
        /\ UNCHANGED <<ttl, indexes, confArg, error, script>>
        /\ UNCHANGED connVars

\* fetch up to the end of its first round trip
Fetch(arg, index) ==
    LET o == FetchCall(db, indexes, arg, index)
    IN  /\ result # RPending
        /\ db' = o.db
        /\ result' = o.result
        /\ calls' = o.calls
        /\ lastOp' = Op("fetch", arg, index, <<>>, UndefinedTTL)
        /\ UNCHANGED <<ttl, indexes, confArg, error, script>>
        /\ UNCHANGED connVars

\* the server's clock advances by one tick while some key is timed
Tick ==
    /\ \E k \in DOMAIN db : db[k].ex # NoExpiry
    /\ db' = Expire(db)
    /\ IF result = RPending THEN UNCHANGED <<lastOp, result, calls>>
       ELSE /\ lastOp' = Op("tick", NoArg, Undefined, <<>>, UndefinedTTL)
            /\ result' = RNone
            /\ calls' = <<>>
    /\ UNCHANGED <<ttl, indexes, confArg, error, script>>
    /\ UNCHANGED connVars

\* the next round trip of a fetch of a list by index.  No call of Spec
\* writes an index key, so there the first script call of such a fetch
\* raises and no fetch is left to go on; SpecBatch has the index keys.
FetchNextTrip ==
    LET o == FetchListTrip(db, lastOp.index, lastOp.arg.items, calls)
    IN  /\ result = RPending
        /\ db' = o.db
        /\ result' = o.result
        /\ calls' = o.calls
        /\ UNCHANGED <<ttl, indexes, lastOp, confArg, error, script>>
        /\ UNCHANGED connVars

DoStore == \E sId \in Ids, rec \in Records : Store(sId, rec)
DoAddMissing == \E c \in MissingCalls : AddMissing(c[1], c[2])
DoFetch == \E c \in FetchCalls : Fetch(c[1], c[2])

Next == DoStore \/ DoAddMissing \/ DoFetch \/ Tick

Spec == Init /\ [][Next]_vars

----------------------------------------------------------------------------
(* Construction from any conf *)

\* a caller holds a conf and has not built the cache yet
InitConf ==
    /\ confArg \in RawConfs
    /\ error = NoError
    /\ ttl = 0
    /\ indexes = <<>>
    /\ db = EmptyDB
    /\ lastOp = Op("conf", NoArg, Undefined, <<>>, UndefinedTTL)
    /\ result = RNone
    /\ calls = <<>>
    /\ script = NoScript
    /\ registry = {}
    /\ insts = <<>>

\* RedisCache(conf)
Construct ==
    LET b == ConstructIndexes(confArg.indexes)
    IN  /\ lastOp.op = "conf"
        /\ ttl' = InitTTL(confArg)
        /\ indexes' = b.indexes
        /\ error' = b.error
        /\ confArg' = [confArg EXCEPT !.indexes.list = b.list]
        /\ lastOp' = Op("init", NoArg, Undefined, <<>>, UndefinedTTL)
        /\ UNCHANGED <<db, result, calls, script>>
        /\ UNCHANGED connVars

NextConf == Construct

SpecInit == InitConf /\ [][NextConf]_vars

----------------------------------------------------------------------------
(* One fetch by index, step by step, beside the calls of other clients *)

\* the index key of the fetches and the id it may hold
KeyNA == SecondaryKey(IndexN, Str(A))
Zero == Marker

\* a cache with the index n; a cache built on the same server with no index
\* makes the stores
InitAtomic ==
    /\ ttl = MaxTTL
    /\ indexes = (IndexN :> <<FieldF>>)
    /\ db = EmptyDB
    /\ lastOp = Op("init", NoArg, Undefined, <<>>, UndefinedTTL)
    /\ result = RNone
    /\ calls = <<>>
    /\ confArg = NoConf
    /\ error = NoError
    /\ script = NoScript
    /\ registry = {}
    /\ insts = <<>>

\* fetch(m, index): the script is called and makes its first GET
ScriptFirstGet(m, index) ==
    LET sKey == SecondaryKey(index, m)
    IN  /\ script.pc # "read1"
        /\ index \in DOMAIN indexes
        /\ script' = Run("read1", sKey, RGet(db, sKey), db, EmptyDB)
        /\ lastOp' = Op("fetch", One(m), index, <<>>, UndefinedTTL)
        /\ result' = RNone
        /\ calls' = <<Trip(FALSE, <<EvalCmd(sKey)>>)>>
        /\ UNCHANGED <<ttl, indexes, db, confArg, error>>
        /\ UNCHANGED connVars

\* the script makes its second GET and fetch returns
ScriptSecondGet ==
    /\ script.pc = "read1"
    /\ script' = [script EXCEPT !.pc = "done", !.seen2 = db]
    /\ result' = IF script.primary = Nil THEN Raise("ResponseError")
                  ELSE Classify(db, RGet(db, script.primary), calls).result
    /\ UNCHANGED <<ttl, indexes, db, lastOp, calls, confArg, error>>
    /\ UNCHANGED connVars

\* store(sId, rec) of another client, on the cache with no index
OtherStore(sId, rec) ==
    /\ ~ScriptHolds(script)
    /\ db' = StorePrimary(db, ttl, sId, rec).db
    /\ UNCHANGED <<ttl, indexes, lastOp, result, calls, confArg, error, script>>
    /\ UNCHANGED connVars

\* add_missing(arg, given) of another client
OtherAddMissing(arg, given) ==
    /\ ~ScriptHolds(script)
    /\ db' = AddMissingCall(db, ttl, arg, given).db
    /\ UNCHANGED <<ttl, indexes, lastOp, result, calls, confArg, error, script>>
    /\ UNCHANGED connVars

\* the server's clock advances by one tick
Expiry ==
    /\ ~ScriptHolds(script)
    /\ \E k \in DOMAIN db : db[k].ex # NoExpiry
    /\ db' = Expire(db)
    /\ UNCHANGED <<ttl, indexes, lastOp, result, calls, confArg, error, script>>
    /\ UNCHANGED connVars

DoScriptFirstGet == \E m \in {Str(A), Tup(<<A>>)} : ScriptFirstGet(m, IndexN)
DoOtherStore == \E rec \in Records : OtherStore(Zero, rec)
DoOtherAddMissing ==
    \E arg \in {List(<<Str(KeyNA)>>), One(Str(Zero))}, given \in {UndefinedTTL, 0} :
        OtherAddMissing(arg, given)

NextAtomic ==
    DoScriptFirstGet \/ ScriptSecondGet \/ DoOtherStore \/ DoOtherAddMissing \/ Expiry

SpecAtomic == InitAtomic /\ [][NextAtomic]_vars

----------------------------------------------------------------------------
(* Fetches of a list by index, round trip by round trip, beside the calls  *)
(* of other clients that write the index keys                              *)

KeyNAA == SecondaryKey(IndexN, Str(AA))

DoFetchList ==
    \E l \in {<<Str(A)>>, <<Str(A), Str(AA)>>, <<Str(AA), Str(A)>>, <<Tup(<<>>)>>} :
        Fetch(List(l), IndexN)
DoIndexAddMissing ==
    \E l \in {<<Str(KeyNA)>>, <<Str(KeyNA), Str(KeyNAA)>>}, given \in {UndefinedTTL, 1} :
        OtherAddMissing(List(l), given)

NextBatch ==
    DoFetchList \/ FetchNextTrip \/ DoIndexAddMissing \/ DoOtherStore \/ Expiry

SpecBatch == InitAtomic /\ [][NextBatch]_vars

----------------------------------------------------------------------------
(* A cache with no index beside another client of the same server, which   *)
(* SETs the ids to any str                                                 *)

\* what the other client writes: the empty str, the marker, the record R1
\* as JSON without spaces, a str of JSON, and a text that is no JSON
RawValues ==
    {<<>>, Marker, <<"{", "\"", "f", "\"", ":", "\"", "a", "\"", "}">>,
     <<"\"", "a", "\"">>, <<"x">>}

InitForeign ==
    /\ ttl = 0
    /\ indexes = <<>>
    /\ db = EmptyDB
    /\ lastOp = Op("init", NoArg, Undefined, <<>>, UndefinedTTL)
    /\ result = RNone
    /\ calls = <<>>
    /\ confArg = NoConf
    /\ error = NoError
    /\ script = NoScript
    /\ registry = {}
    /\ insts = <<>>

\* SET k v of the other client
OtherSet(k, v) ==
    /\ db' = RSet(db, k, v, NoExpiry)
    /\ lastOp' = Op("other", NoArg, Undefined, <<>>, UndefinedTTL)
    /\ result' = RNone
    /\ calls' = <<>>
    /\ UNCHANGED <<ttl, indexes, confArg, error, script>>
    /\ UNCHANGED connVars

DoOtherSet == \E k \in Ids, v \in RawValues : OtherSet(k, v)

NextForeign == DoOtherSet \/ DoStore \/ DoFetch

SpecForeign == InitForeign /\ [][NextForeign]_vars

----------------------------------------------------------------------------
(* Caches constructed side by side on one registry of connections *)

\* conf['redis']: the server's host, port and db
Server(db_) == [host |-> "localhost", port |-> 6379, db |-> db_]
Servers == {Server(0), Server(1)}
ConnConfs == [redis : Servers, ttl : {0, MaxTTL}]
Caches == 1..MaxCaches

\* what the constructor hands to nr()
ConnKey(c) == c.redis

\* a connection: the server it is open to, and its rank among those created
Conn(server, serial) == [server |-> server, serial |-> serial]
NoConn == Conn(Server(-1), 0)

\* every call opens a connection of its own
GetOrCreateAlways(reg, k, server) ==
    LET c == Conn(server, Cardinality(reg) + 1)
    IN  [registry |-> reg \cup {[key |-> k, conn |-> c]}, conn |-> c]

\* get_or_create: the connection kept under the key, or else a new one to
\* the server, kept under the key from then on.  Its contract makes this
\* one indivisible step, whichever constructors run side by side.
GetOrCreate(reg, k, server) ==
    IF \E e \in reg : e.key = k
        THEN [registry |-> reg, conn |-> (CHOOSE e \in reg : e.key = k).conn]
    ELSE LET c == Conn(server, Cardinality(reg) + 1)
         IN  [registry |-> reg \cup {[key |-> k, conn |-> c]}, conn |-> c]

Inst(c, pc, redis) == [conf |-> c, pc |-> pc, redis |-> redis]

InitConn ==
    /\ registry = {}
    /\ insts = <<>>
    /\ ttl = 0
    /\ indexes = <<>>
    /\ db = EmptyDB
    /\ lastOp = Op("conf", NoArg, Undefined, <<>>, UndefinedTTL)
    /\ result = RNone
    /\ calls = <<>>
    /\ confArg = NoConf
    /\ error = NoError
    /\ script = NoScript

\* RedisCache(c) is called for cache p and stores its ttl
Begin(p, c) ==
    /\ p \notin DOMAIN insts
    /\ insts' = (p :> Inst(c, "ttl", NoConn)) @@ insts
    /\ UNCHANGED <<ttl, indexes, db, lastOp, result, calls, confArg, error, script, registry>>

\* self._redis = nr(conf['redis']), and the rest of the constructor
Connect(p) ==
    /\ p \in DOMAIN insts
    /\ insts[p].pc = "ttl"
    /\ LET g == GetOrCreate(registry, ConnKey(insts[p].conf), insts[p].conf.redis)
       IN  /\ registry' = g.registry
           /\ insts' = [insts EXCEPT ![p] = Inst(insts[p].conf, "built", g.conn)]
    /\ UNCHANGED <<ttl, indexes, db, lastOp, result, calls, confArg, error, script>>

DoBegin == \E p \in Caches, c \in ConnConfs : Begin(p, c)
DoConnect == \E p \in Caches : Connect(p)

NextConn == DoBegin \/ DoConnect

SpecConn == InitConn /\ [][NextConn]_vars

----------------------------------------------------------------------------
(* Vocabulary of the properties *)

\* the ids of an argument, as the caller meant them
GivenIds(arg) == {arg.items[k].parts[1] : k \in 1..Len(arg.items)}

\* the commands of some round trips, in the order sent
RECURSIVE Sent(_)
Sent(trips) == IF Len(trips) = 0 THEN <<>> ELSE trips[1].cmds \o Sent(Tail(trips))

\* the keys the SET commands of some round trips write
WrittenKeys(trips) ==
    LET cmds == Sent(trips)
    IN  {cmds[j].keys[1].parts[1] : j \in {x \in 1..Len(cmds) : cmds[x].cmd = "SET"}}

\* fetch(i) with no index, on keyspace d
FetchOf(d, i) == FetchCall(d, indexes, One(Str(i)), Undefined).result

\* what the keyspace holds at k, read without the cache's decoder
Holds(d, k) ==
    IF k \notin DOMAIN d THEN Item("None", <<>>)
    ELSE IF d[k].val = Marker THEN Item("False", <<>>)
    ELSE IF \E r \in Records : Encode(r) = d[k].val
        THEN Item("dict", CHOOSE r \in Records : Encode(r) = d[k].val)
    ELSE Item("other", d[k].val)

\* record[s]
RECURSIVE RecordGet(_, _)
RecordGet(rec, f) ==
    IF Len(rec) = 0 THEN <<>>
    ELSE IF rec[1][1] = f THEN rec[1][2]
    ELSE RecordGet(Tail(rec), f)

\* the values of a record for the fields of an index, and its secondary key
IndexValues(rec, fields) == [k \in 1..Len(fields) |-> RecordGet(rec, fields[k])]
IndexKey(name, rec, fields) == Fmt(name, Join(<<":">>, IndexValues(rec, fields)))

StoredId == lastOp.arg.items[1].parts[1]

----------------------------------------------------------------------------
(* Properties *)

\* C1: with no index configured, fetch(I) right after store(I, R) returns R,
\* and a fetch(I) that returns a record keeps returning it over every step
\* that neither writes I nor expires it.
C1_RoundTrip ==
    [][DOMAIN indexes = {} =>
        /\ lastOp'.op = "store" =>
               FetchOf(db', lastOp'.arg.items[1].parts[1]) = RDict(lastOp'.rec)
        /\ \A i \in Ids :
               LET before == FetchOf(db, i)
               IN  (/\ i \notin WrittenKeys(calls')
                    /\ before.kind = "dict"
                    /\ ~(lastOp'.op = "tick" /\ db[i].ex = 1))
                   => FetchOf(db', i) = before]_vars

\* a fetch of the two-character id returns the second record, stored under it
C1_Witness ==
    /\ DOMAIN indexes = {}
    /\ lastOp.op = "fetch" /\ ~lastOp.arg.list /\ lastOp.index = Undefined
    /\ result = RDict(R2)
    /\ lastOp.arg.items[1] = Str(AA)

\* C2: when add_missing returns, fetch(I) is Negative for every id I it was
\* given, and the marker of I carries the applicable time to live.
C2_MarkedNegative ==
    lastOp.op = "add_missing" =>
        \A i \in GivenIds(lastOp.arg) :
            /\ FetchOf(db, i) = RFalse
            /\ db[i].ex = ExOf(IF lastOp.t = UndefinedTTL THEN ttl ELSE lastOp.t)

\* C3: a store or an add_missing changes no key other than the ids it was
\* given and the index keys derived from the stored record.
C3_OnlyGivenKeys ==
    [][lastOp'.op \in {"store", "add_missing"} =>
        \A k \in DOMAIN db' :
            \/ k \in GivenIds(lastOp'.arg)
            \/ /\ lastOp'.op = "store"
               /\ \E n \in DOMAIN indexes : k = IndexKey(n, lastOp'.rec, indexes[n])
            \/ k \in DOMAIN db /\ db'[k] = db[k]]_vars

\* C4: after store(I, R) on a cache with index n, the fetch by R's values
\* for the fields of n returns the record that fetch(I) returns.
C4_IndexFetchSameRecord ==
    (lastOp.op = "store" /\ IndexN \in DOMAIN indexes) =>
        LET byIndex == FetchCall(db, indexes,
                           One(Tup(IndexValues(lastOp.rec, indexes[IndexN]))),
                           IndexN).result
        IN  /\ byIndex = RDict(lastOp.rec)
            /\ byIndex = FetchOf(db, StoredId)

\* C5: a fetch of a list of str ids with no index returns a list of the same
\* length whose position k is what the keyspace holds at the k-th id.
C5_BatchOrder ==
    (/\ lastOp.op = "fetch" /\ lastOp.arg.list /\ lastOp.index = Undefined
     /\ \A k \in 1..Len(lastOp.arg.items) : ~lastOp.arg.items[k].tup)
    => /\ result.kind = "list"
       /\ Len(result.items) = Len(lastOp.arg.items)
       /\ \A k \in 1..Len(lastOp.arg.items) :
              result.items[k] = Holds(db, lastOp.arg.items[k].parts[1])

\* a batch over a marked id, an untouched id and a stored id, in that order
C5_Witness ==
    /\ lastOp.op = "fetch" /\ lastOp.index = Undefined
    /\ lastOp.arg = List(<<Str(AA), Str(B), Str(A)>>)
    /\ result = RList(<<Item("False", <<>>), Item("None", <<>>), Item("dict", R1)>>)

\* C6: store on a cache with indexes sends one pipeline holding the primary
\* SET and one SET per index, all with the same time to live, and the
\* keyspace then holds them.
C6_StoreIndexedBatch ==
    (lastOp.op = "store" /\ DOMAIN indexes # {}) =>
        /\ Len(calls) = 1 /\ calls[1].pipe
        /\ Len(calls[1].cmds) = 1 + Cardinality(DOMAIN indexes)
        /\ calls[1].cmds[1] = SetCmd(StoredId, Encode(lastOp.rec), ExOf(ttl))
        /\ \A n \in DOMAIN indexes :
               LET k == IndexKey(n, lastOp.rec, indexes[n])
               IN  /\ \E j \in 2..Len(calls[1].cmds) :
                          calls[1].cmds[j] = SetCmd(k, StoredId, ExOf(ttl))
                   /\ k \in DOMAIN db /\ db[k] = [val |-> StoredId, ex |-> ExOf(ttl)]
        /\ StoredId \in DOMAIN db
        /\ db[StoredId] = [val |-> Encode(lastOp.rec), ex |-> ExOf(ttl)]

\* C7: a fetch with an index that is not configured raises the index error,
\* whatever the shape of the ids, sends nothing and leaves the keyspace.
C7_UnknownIndex ==
    [][(/\ lastOp'.op = "fetch"
        /\ lastOp'.index # Undefined
        /\ lastOp'.index \notin DOMAIN indexes)
       => /\ result' = Raise("ValueError:index")
          /\ calls' = <<>>
          /\ db' = db]_vars

\* a list holding a tuple, fetched by an unknown index from a filled keyspace
C7_Witness ==
    /\ lastOp.op = "fetch" /\ lastOp.index = IndexX
    /\ lastOp.arg = List(<<Str(A), Tup(<<A, B>>)>>)
    /\ result = Raise("ValueError:index")
    /\ A \in DOMAIN db

\* C8: a fetch with no index of a tuple, or of a list holding a tuple, raises
\* the argument error and sends no command that has a tuple as a key.
C8_TupleNeedsIndex ==
    (/\ lastOp.op = "fetch" /\ lastOp.index = Undefined
     /\ \E k \in 1..Len(lastOp.arg.items) : lastOp.arg.items[k].tup)
    => /\ result = Raise("ValueError:_id")
       /\ \A j \in 1..Len(Sent(calls)) :
              \A k \in 1..Len(Sent(calls)[j].keys) : ~Sent(calls)[j].keys[k].tup

\* C9: a fetch leaves the keys, values and times to live as they were.
C9_FetchReadOnly == [][lastOp'.op = "fetch" => db' = db]_vars

\* a fetch by index that reached the server, with a timed key in the keyspace
C9_Witness ==
    /\ lastOp.op = "fetch" /\ lastOp.index = IndexN
    /\ lastOp.arg = One(Tup(<<A, B>>))
    /\ Len(calls) = 1 /\ calls[1].cmds[1].cmd = "EVALSHA"
    /\ \E k \in DOMAIN db : db[k].ex = 1

\* C10: every marker add_missing writes carries the ttl argument when one is
\* given and the instance ttl otherwise, 0 standing for no expiry; every id
\* of a list gets its marker; and a key with no expiry is never removed.
C10_MissingTTL ==
    [][/\ lastOp'.op = "add_missing" =>
           LET eff == IF lastOp'.t = UndefinedTTL THEN ttl ELSE lastOp'.t
               marked == [val |-> Marker, ex |-> IF eff = 0 THEN NoExpiry ELSE eff]
           IN  /\ \A k \in DOMAIN db' :
                      (k \notin DOMAIN db \/ db'[k] # db[k]) => db'[k] = marked
               /\ \A k \in WrittenKeys(calls') : db'[k] = marked
               /\ lastOp'.arg.list =>
                      \A i \in GivenIds(lastOp'.arg) : i \in DOMAIN db' /\ db'[i] = marked
       /\ \A k \in DOMAIN db :
              db[k].ex = NoExpiry =>
                  /\ k \in DOMAIN db'
                  /\ lastOp'.op = "tick" => db'[k] = db[k]
      ]_vars

\* a marker written with ttl 1 by a cache whose own ttl is MaxTTL
C10_Witness ==
    /\ lastOp.op = "add_missing" /\ lastOp.t = 1 /\ ttl = MaxTTL
    /\ lastOp.arg = List(<<Str(A), Str(AA)>>)
    /\ db[A] = [val |-> Marker, ex |-> 1]
    /\ db[AA] = [val |-> Marker, ex |-> 1]

\* C12: a fetch of one id by a configured index whose key was never written
\* returns None and raises nothing.
C12_MissingIndexKeyAbsent ==
    (/\ lastOp.op = "fetch" /\ ~lastOp.arg.list
     /\ lastOp.index \in DOMAIN indexes
     /\ SecondaryKey(lastOp.index, lastOp.arg.items[1]) \notin DOMAIN db)
    => result = RNone

\* C13: a fetch of a list by a configured index sends one pipeline holding
\* one script call per id, in order, and returns a list of that length.
C13_IndexedBatchPipelined ==
    (lastOp.op = "fetch" /\ lastOp.arg.list /\ lastOp.index \in DOMAIN indexes)
    => /\ Len(calls) = 1 /\ calls[1].pipe
       /\ calls[1].cmds = [k \in 1..Len(lastOp.arg.items) |->
                              EvalCmd(ListSecondaryKey(lastOp.index, lastOp.arg.items[k]))]
       /\ result.kind = "list"
       /\ Len(result.items) = Len(lastOp.arg.items)

\* C15: add_missing of one id sends one SET of that id and returns one bool;
\* add_missing of a list of two or more ids sends one pipeline holding one SET
\* per id, in order, and returns one bool per id.
C15_MissingWrites ==
    lastOp.op = "add_missing" =>
        LET ex == ExOf(IF lastOp.t = UndefinedTTL THEN ttl ELSE lastOp.t)
            ids == [k \in 1..Len(lastOp.arg.items) |-> lastOp.arg.items[k].parts[1]]
        IN  /\ ~lastOp.arg.list =>
                   /\ result = RTrue
                   /\ calls = <<Trip(FALSE, <<SetCmd(ids[1], Marker, ex)>>)>>
            /\ (lastOp.arg.list /\ Len(ids) >= 2) =>
                   /\ result = RList([k \in 1..Len(ids) |-> Item("True", <<>>)])
                   /\ calls = <<Trip(TRUE, [k \in 1..Len(ids) |-> SetCmd(ids[k], Marker, ex)])>>

\* C18: last write wins on one id, on a cache with no index: right after a
\* store or an add_missing that was given I, fetch(I) returns the stored
\* record if the call was a store and False if it was an add_missing, and
\* it returns the same over every later step that is no such call and does
\* not expire I.
C18_LastWriteWins ==
    [][DOMAIN indexes = {} =>
        \A i \in Ids :
            IF lastOp'.op \in {"store", "add_missing"} /\ i \in GivenIds(lastOp'.arg)
                THEN FetchOf(db', i) = (IF lastOp'.op = "store" THEN RDict(lastOp'.rec)
                                        ELSE RFalse)
            ELSE (lastOp'.op = "tick" /\ i \in DOMAIN db /\ db[i].ex = 1)
                 \/ FetchOf(db', i) = FetchOf(db, i)]_vars

\* a result of fetch as an element of a list
AsItem(res) == IF res.kind = "list" THEN Item("list", res.items) ELSE Item(res.kind, res.rec)

\* C19: in every state of the store, a fetch of a list of str ids with no
\* index returns, at each position, what the fetch of that one id returns,
\* and as many positions; it raises when the fetch of one of them does.
C19_BatchAgreesWithSingle ==
    (/\ lastOp.op = "fetch" /\ lastOp.arg.list /\ lastOp.index = Undefined
     /\ \A k \in 1..Len(lastOp.arg.items) : ~lastOp.arg.items[k].tup)
    => LET ones == [k \in 1..Len(lastOp.arg.items) |->
                       FetchOf(db, lastOp.arg.items[k].parts[1])]
       IN  IF \E k \in 1..Len(ones) : ones[k].kind = "raise"
               THEN result.kind = "raise"
           ELSE /\ result.kind = "list"
                /\ Len(result.items) = Len(ones)
                /\ \A k \in 1..Len(ones) : result.items[k] = AsItem(ones[k])

\* C20: store on a cache with no index returns a bool.
C20_StoreReturnsBool ==
    (lastOp.op = "store" /\ DOMAIN indexes = {}) => result = RTrue

\* C16: every cache that was constructed has pairwise distinct index names,
\* each with a non-empty list of fields: a conf with a repeated name or with
\* an empty list of fields fails construction.
C16_IndexesValidated ==
    (lastOp.op = "init" /\ error = NoError) =>
        LET l == confArg.indexes.list
        IN  /\ \A i, j \in 1..Len(l) : l[i].name.val = l[j].name.val => i = j
            /\ \A i \in 1..Len(l) : l[i].name.val # <<>> /\ l[i].fields.val # <<>>

\* an entry the constructor must refuse for its shape
ShapeError(e) == ~e.isDict \/ ~e.name.has \/ e.fields.kind \notin {"str", "list"}

\* C17: the constructor raises ValueError when conf['indexes'] is not a list,
\* and at the first entry that is not a dict, lacks 'fields' or 'name', or has
\* 'fields' that are neither a str nor a list; with no such entry it raises
\* nothing, and every str 'fields' is left in the conf, and stored under its
\* name, as a list of that one str.
C17_ShapeErrors ==
    [][(lastOp.op = "conf" /\ lastOp'.op = "init") =>
        LET ix == confArg.indexes
            l == ix.list
            bad == {i \in 1..Len(l) : ShapeError(l[i])}
        IN  /\ ix.kind \in {"dict", "str"} => error'.type = "ValueError"
            /\ bad # {} =>
                   /\ error'.type = "ValueError"
                   /\ \A i \in bad : error'.at + 1 <= i
                   /\ error'.at + 1 \in bad
            /\ (ix.kind \in {"missing", "list"} /\ bad = {}) =>
                   /\ error' = NoError
                   /\ DOMAIN indexes' = {l[i].name.val : i \in 1..Len(l)}
                   /\ \A i \in 1..Len(l) :
                          l[i].fields.kind = "str" =>
                              /\ confArg'.indexes.list[i].fields =
                                     Fields("list", <<l[i].fields.val[1]>>)
                              /\ (\A j \in 1..Len(l) : l[j].name = l[i].name => j <= i)
                                     => indexes'[l[i].name.val] = <<l[i].fields.val[1]>>]_vars

\* a conf whose second entry has an int for 'fields': the constructor raised
\* at position 1, after the first entry was stored
C17_Witness ==
    /\ lastOp.op = "init"
    /\ error = ValueError("conf.indexes[%d].fields", 1)
    /\ Len(confArg.indexes.list) = 2
    /\ confArg.indexes.list[2].fields.kind = "int"
    /\ DOMAIN indexes = {IndexN}

\* C14: the two reads of one fetch by index see the same keyspace: no store,
\* add_missing or expiry takes effect between them, and the fetch returns what
\* the lookup gives on that one keyspace.
C14_ResolutionAtomic ==
    script.pc = "done" =>
        /\ script.seen1 = script.seen2
        /\ result = FetchSecondary(script.seen1, script.key).result

\* a fetch that found the record while the record was one tick from expiry
C14_Witness ==
    /\ script.pc = "done"
    /\ result = RDict(R1)
    /\ script.seen1[Zero].ex = 1

\* the connections open to a server
ConnsTo(server) == {e.conn : e \in {x \in registry : x.conn.server = server}}

\* C11: caches built with the same host, port and db hold the same
\* connection, and at most one connection is ever created per server, in
\* whatever order the constructors run.
C11_OneConnection ==
    /\ \A server \in Servers : Cardinality(ConnsTo(server)) <= 1
    /\ \A p, q \in DOMAIN insts :
           (/\ insts[p].pc = "built" /\ insts[q].pc = "built"
            /\ insts[p].conf.redis = insts[q].conf.redis)
           => insts[p].redis = insts[q].redis

\* two caches built on one server with different ttl, both holding the
\* second connection the registry created
C11_Witness ==
    \E p, q \in DOMAIN insts :
        /\ insts[p].pc = "built" /\ insts[q].pc = "built"
        /\ insts[p].conf.redis = insts[q].conf.redis
        /\ insts[p].conf.ttl # insts[q].conf.ttl
        /\ insts[p].redis = insts[q].redis
        /\ insts[p].redis.serial = 2

====
